---- MODULE Spec2Model ----
(***************************************************************************)
(* A model of pgeodistance.GlobalGeoDistance (src/pgeodistance.py): the    *)
(* download with fallback, the two on-disk tables of a country, the        *)
(* in-process table of unique postal codes, the normalisation of a postal  *)
(* code and the location and distance queries.                             *)
(*                                                                         *)
(* Text is a sequence of one-character strings, so that upper() and        *)
(* split() are computed character by character.  A cell of a table is <<>> *)
(* (pandas' NaN, a missing value) or <<v>> (the value v).  A coordinate is *)
(* a fraction <<n, d>> in lowest terms with d > 0.                         *)
(***************************************************************************)
EXTENDS Integers, Sequences, FiniteSets, TLC

VARIABLES files, cache, force_download, indexSrc, cacheSrc, last, run

vars == <<files, cache, force_download, indexSrc, cacheSrc, last, run>>

(***************************************************************************)
(* Bounds of the model.                                                    *)
(***************************************************************************)
\* longest postal-code argument enumerated for preprocess_postal_code
MaxCodeLen == 4
\* most rows of a downloaded table enumerated for the first load of a country
MaxRows == 3
\* longest list of download locations enumerated for _open_extract_cycle_url
MaxUrls == 3
\* most rows of the download behind a unique file found in the storage directory
MaxStoredRows == 2

(***************************************************************************)
(* Text                                                                    *)
(***************************************************************************)
LOWER == <<"a","b","c","d","e","f","g","h","i","j","k","l","m",
           "n","o","p","q","r","s","t","u","v","w","x","y","z">>

UPPER == <<"A","B","C","D","E","F","G","H","I","J","K","L","M",
           "N","O","P","Q","R","S","T","U","V","W","X","Y","Z">>

DIGITS == <<"0","1","2","3","4","5","6","7","8","9">>

\* the characters of the model in code-point order (tab, space, '-', digits,
\* upper case, lower case)
ASCII == <<"\t", " ", "-">> \o DIGITS \o UPPER \o LOWER

Ord(ch) == CHOOSE i \in 1..Len(ASCII) : ASCII[i] = ch

\* str.upper() on one character
UpperChar(ch) ==
    IF \E i \in 1..Len(LOWER) : LOWER[i] = ch
    THEN UPPER[CHOOSE i \in 1..Len(LOWER) : LOWER[i] = ch]
    ELSE ch

\* str.upper()
StrUpper(s) == [i \in 1..Len(s) |-> UpperChar(s[i])]

\* str.isspace() on one character
IsSpace(ch) == ch \in {" ", "\t"}

\* str.split() with no argument: the maximal runs of non-whitespace characters
RECURSIVE StrSplit(_)
StrSplit(s) ==
    IF s = <<>> THEN <<>>
    ELSE IF IsSpace(Head(s)) THEN StrSplit(Tail(s))
    ELSE LET ends == {i \in 1..Len(s) : IsSpace(s[i])}
             stop == IF ends = {} THEN Len(s) + 1
                     ELSE CHOOSE i \in ends : \A j \in ends : i <= j
         IN  <<SubSeq(s, 1, stop - 1)>> \o StrSplit(SubSeq(s, stop, Len(s)))

\* str(n) for an int n >= 0
RECURSIVE IntStr(_)
IntStr(n) ==
    IF n < 10 THEN <<DIGITS[n + 1]>>
    ELSE IntStr(n \div 10) \o <<DIGITS[(n % 10) + 1]>>

\* s < t in Python's string order
RECURSIVE StrLess(_, _)
StrLess(s, t) ==
    IF t = <<>> THEN FALSE
    ELSE IF s = <<>> THEN TRUE
    ELSE IF Head(s) = Head(t) THEN StrLess(Tail(s), Tail(t))
    ELSE Ord(Head(s)) < Ord(Head(t))

(***************************************************************************)
(* Arguments.  A postal-code argument is <<"str", text>> or <<"int", n>>.  *)
(***************************************************************************)
IsInt(code) == code[1] = "int"

\* the countries whose codes keep only the leading segment (line 309)
LEADING_SEGMENT_COUNTRIES == {<<"G","B">>, <<"I","E">>, <<"C","A">>}

\* the mutant: strips the code for every country
PreprocessStripAll(code, country) ==
    LET c1 == IF IsInt(code) THEN IntStr(code[2]) ELSE code[2]
    IN  IF c1 = <<>> THEN [kind |-> "string", value |-> c1]
        ELSE LET parts == StrSplit(StrUpper(c1))
             IN  IF parts = <<>> THEN [kind |-> "raise", value |-> "IndexError"]
                 ELSE [kind |-> "string", value |-> parts[1]]

\* GlobalGeoDistance.preprocess_postal_code: [kind |-> "string", value |-> text]
\* or [kind |-> "raise", value |-> the exception]
preprocess_postal_code(code, country) ==
    LET c1 == IF IsInt(code) THEN IntStr(code[2]) ELSE code[2]
    IN  IF c1 = <<>> THEN [kind |-> "string", value |-> c1]
        ELSE LET cu == StrUpper(c1)
             IN  IF StrUpper(country) \in LEADING_SEGMENT_COUNTRIES
                 THEN LET parts == StrSplit(cu)
                      IN  IF parts = <<>>
                          THEN [kind |-> "raise", value |-> "IndexError"]
                          ELSE [kind |-> "string", value |-> parts[1]]
                 ELSE [kind |-> "string", value |-> cu]

\* the binding of a local variable: F(x), with x evaluated once
Bind(x, F(_)) == CHOOSE y \in {F(v) : v \in {x}} : TRUE

(***************************************************************************)
(* Numbers: a float is modelled by the fraction it stands for.             *)
(***************************************************************************)
RECURSIVE Gcd(_, _)
Gcd(a, b) == IF b = 0 THEN a ELSE Gcd(b, a % b)

Abs(n) == IF n < 0 THEN -n ELSE n

\* the fraction n/d (d > 0) in lowest terms
Frac(n, d) == LET g == Gcd(Abs(n), d) IN <<n \div g, d \div g>>

FracAdd(a, b) == Frac(a[1] * b[2] + b[1] * a[2], a[2] * b[2])

RECURSIVE FracSum(_)
FracSum(xs) == IF xs = <<>> THEN <<0, 1>> ELSE FracAdd(Head(xs), FracSum(Tail(xs)))

(***************************************************************************)
(* Tables.  A row is a function from the column names to cells; a table is *)
(* a sequence of rows.  The eight columns that get_unique_geo_data treats  *)
(* alike (country_code, state_name, state_code, county_name, county_code,  *)
(* community_name, community_code, accuracy) are represented by            *)
(* state_name.                                                             *)
(***************************************************************************)
DATA_FIELDS == <<"postal_code", "place_name", "state_name", "latitude", "longitude">>

Fields == {DATA_FIELDS[i] : i \in 1..Len(DATA_FIELDS)}

NumericFields == {"latitude", "longitude"}

NaN == <<>>

\* the texts pandas.read_csv reads as NaN (its default na_values), besides the
\* empty field
NA_VALUES == {<<"N","A">>, <<"N","U","L","L">>, <<"N","a","N">>,
              <<"N","o","n","e">>, <<"n","a","n">>, <<"n","u","l","l">>}

\* pandas.read_csv on one field, dtype={"postal_code": str}: an empty field and
\* an NA text are NaN, any other text of a text column is kept as it is
ReadCsvCell(f, text) ==
    IF text = <<>> THEN NaN
    ELSE IF f \in NumericFields THEN text
    ELSE IF text[1] \in NA_VALUES THEN NaN
    ELSE text

\* pandas.read_csv: a table of texts to a table of cells
ReadCsv(texts) ==
    [i \in 1..Len(texts) |-> [f \in Fields |-> ReadCsvCell(f, texts[i][f])]]

\* DataFrame.to_csv on one cell: NaN and the empty text are the empty field
ToCsvCell(f, cell) ==
    IF cell = NaN THEN <<>>
    ELSE IF f \notin NumericFields /\ cell[1] = <<>> THEN <<>>
    ELSE cell

\* DataFrame.to_csv(path, index=None)
ToCsv(table) ==
    [i \in 1..Len(table) |-> [f \in Fields |-> ToCsvCell(f, table[i][f])]]

\* the column f of a table, as a sequence of cells
Col(table, f) == [i \in 1..Len(table) |-> table[i][f]]

\* the values of the cells that are not NaN, in order
RECURSIVE Present(_)
Present(cells) ==
    IF cells = <<>> THEN <<>>
    ELSE (IF Head(cells) = NaN THEN <<>> ELSE <<Head(cells)[1]>>) \o Present(Tail(cells))

\* GroupBy.mean() of one column of one group: the mean of the values that are
\* not NaN, NaN when there is none
GroupMean(cells) ==
    LET xs == Present(cells)
    IN  IF xs = <<>> THEN NaN
        ELSE LET s == FracSum(xs) IN <<Frac(s[1], s[2] * Len(xs))>>

\* the mutant: the last value of the group
GroupLast(cells) ==
    LET xs == Present(cells) IN IF xs = <<>> THEN NaN ELSE <<xs[Len(xs)]>>

\* GroupBy.first() of one column of one group: the first value that is not NaN,
\* NaN when there is none
GroupFirst(cells) ==
    LET xs == Present(cells) IN IF xs = <<>> THEN NaN ELSE <<xs[1]>>

\* str(el) of a place_name cell (line 275): a NaN is the float nan
StrOfCell(cell) == IF cell = NaN THEN <<"n","a","n">> ELSE cell[1]

\* the mutant: joins the names last to first
RECURSIVE JoinReversed(_)
JoinReversed(cells) ==
    IF Len(cells) = 1 THEN StrOfCell(cells[1])
    ELSE StrOfCell(cells[Len(cells)]) \o <<",", " ">>
         \o JoinReversed(SubSeq(cells, 1, Len(cells) - 1))

\* ", ".join([str(el) for el in x]) on a group's place_name column (not empty)
RECURSIVE JoinPlaces(_)
JoinPlaces(cells) ==
    IF Len(cells) = 1 THEN StrOfCell(cells[1])
    ELSE StrOfCell(Head(cells)) \o <<",", " ">> \o JoinPlaces(Tail(cells))

\* the group keys of groupby("postal_code"): the distinct codes that are not NaN
GroupKeys(raw) == {raw[i]["postal_code"][1] : i \in {j \in 1..Len(raw) : raw[j]["postal_code"] # NaN}}

\* a set of texts as a sequence in increasing order (groupby sorts its keys)
RECURSIVE SortedKeys(_)
SortedKeys(ks) ==
    IF ks = {} THEN <<>>
    ELSE LET m == CHOOSE k \in ks : \A o \in ks : o = k \/ StrLess(k, o)
         IN  <<m>> \o SortedKeys(ks \ {m})

\* the rows of one group, in the order of the raw table
Group(raw, k) == SelectSeq(raw, LAMBDA r : r["postal_code"] = <<k>>)

\* line 271-273: the misspelt "lattitude" leaves latitude among the valid keys
valid_keys == Fields \ {"place_name", "lattitude", "longitude", "postal_code"}

\* the mutant: one row for every raw row with a postal code, nothing grouped
UngroupedOf(raw) == SelectSeq(raw, LAMBDA r : r["postal_code"] # NaN)

\* lines 269-279: the table of unique postal codes derived from the raw table
UniqueOf(raw) ==
    LET keys == SortedKeys(GroupKeys(raw))
        UniqueRow(k) ==
            Bind(Group(raw, k), LAMBDA g :
            LET \* line 270
                means   == [f \in {"latitude", "longitude"} |-> GroupMean(Col(g, f))]
                \* lines 274-276
                place   == <<JoinPlaces(Col(g, "place_name"))>>
                \* lines 277-278
                firsts  == [f \in valid_keys |-> GroupFirst(Col(g, f))]
            IN  \* line 279: reset_index()[DATA_FIELDS]
                [f \in Fields |->
                    IF f = "postal_code" THEN <<k>>
                    ELSE IF f \in valid_keys THEN firsts[f]
                    ELSE IF f = "place_name" THEN place
                    ELSE means[f]])
    IN  [i \in 1..Len(keys) |-> UniqueRow(keys[i])]

\* DataFrame.set_index('postal_code'): the rows keyed by their postal code
SetIndex(table) ==
    [i \in 1..Len(table) |->
        [index |-> table[i]["postal_code"],
         cols  |-> [f \in Fields \ {"postal_code"} |-> table[i][f]]]]

\* the postal codes of the rows of an indexed table, with repetitions
IndexOf(indexed) == [i \in 1..Len(indexed) |-> indexed[i].index]

(***************************************************************************)
(* The engine.  A file is <<>> (no such file) or <<texts>>; cache[e] is    *)
(* the _unique_geo_data dictionary of engine e.  An operation works on a   *)
(* world [files, cache, indexSrc, cacheSrc] and yields the world it leaves *)
(* with its result: kind is "table", "point", "number", "string", "none"   *)
(* (the operation returned None) or "raise" (it raised value); io is the   *)
(* set of transfers it made; path says how get_unique_geo_data answered.   *)
(*                                                                         *)
(* indexSrc and cacheSrc are history variables: the raw table (the local   *)
(* raw_geo_data) a "-index.txt" file, respectively an entry of             *)
(* _unique_geo_data, was derived from.  The code does not keep them and no *)
(* operation reads them to decide anything.                                *)
(***************************************************************************)
Engines == {"A", "B"}

COUNTRIES_VALID ==
    {<<"A","D">>, <<"A","R">>, <<"A","S">>, <<"A","T">>, <<"A","U">>, <<"A","X">>,
     <<"B","D">>, <<"B","E">>, <<"B","G">>, <<"B","M">>, <<"B","R">>, <<"B","Y">>,
     <<"C","A">>, <<"C","H">>, <<"C","O">>, <<"C","R">>, <<"C","Z">>, <<"D","E">>,
     <<"D","K">>, <<"D","O">>, <<"D","Z">>, <<"E","S">>, <<"F","I">>, <<"F","O">>,
     <<"F","R">>, <<"G","B">>, <<"G","F">>, <<"G","G">>, <<"G","L">>, <<"G","P">>,
     <<"G","T">>, <<"G","U">>, <<"H","R">>, <<"H","U">>, <<"I","E">>, <<"I","M">>,
     <<"I","N">>, <<"I","S">>, <<"I","T">>, <<"J","E">>, <<"J","P">>, <<"L","I">>,
     <<"L","K">>, <<"L","T">>, <<"L","U">>, <<"L","V">>, <<"M","C">>, <<"M","D">>,
     <<"M","H">>, <<"M","K">>, <<"M","P">>, <<"M","Q">>, <<"M","T">>, <<"M","X">>,
     <<"M","Y">>, <<"N","C">>, <<"N","L">>, <<"N","O">>, <<"N","Z">>, <<"P","H">>,
     <<"P","K">>, <<"P","L">>, <<"P","M">>, <<"P","R">>, <<"P","T">>, <<"R","E">>,
     <<"R","O">>, <<"R","U">>, <<"S","E">>, <<"S","I">>, <<"S","J">>, <<"S","K">>,
     <<"S","M">>, <<"T","H">>, <<"T","R">>, <<"U","A">>, <<"U","S">>, <<"U","Y">>,
     <<"V","A">>, <<"V","I">>, <<"W","F">>, <<"Y","T">>, <<"Z","A">>}

\* the mutant: any code of two characters passes
IsTwoCharacters(country) == Len(country) = 2

\* line 242: the country is one of the catalogue
IsKnownCountry(country) == country \in COUNTRIES_VALID

\* the two download locations, the archive first
DOWNLOAD_URL == <<"geonames.zip", "symerio.txt">>

\* get_raw_geo_data_path, as the file name under STORAGE_DIR
get_raw_geo_data_path(country) == StrUpper(country) \o <<".","t","x","t">>

\* get_unique_geo_data_path, as the file name under STORAGE_DIR
get_unique_geo_data_path(country) ==
    StrUpper(country) \o <<"-","i","n","d","e","x",".","t","x","t">>

\* os.path.exists
Exists(fs, path) == fs[path] # <<>>

\* the mutant: no break after the location that works (line 160), the loop
\* goes on to the locations after it
RECURSIVE CycleWithoutBreak(_, _, _, _)
CycleWithoutBreak(urls, outs, idx, tried) ==
    LET now == Append(tried, idx)
    IN  IF outs[idx] \in {"ok", "HTTPError"}
        THEN IF idx = Len(urls)
             THEN [kind |-> IF outs[idx] = "ok" THEN "ok" ELSE "raise",
                   value |-> IF outs[idx] = "ok" THEN idx ELSE "HTTPError",
                   tried |-> now, warned |-> tried]
             ELSE CycleWithoutBreak(urls, outs, idx + 1, now)
        ELSE [kind |-> "raise", value |-> outs[idx], tried |-> now, warned |-> tried]

\* _open_extract_cycle_url, lines 152-171.  outs[i] is what opening URL i does:
\* "ok", "HTTPError" (a response that is not 2xx) or "URLError" (any other
\* failure: the network, a bad archive).  tried lists the URLs opened, in order.
RECURSIVE CycleFrom(_, _, _, _)
CycleFrom(urls, outs, idx, tried) ==
    IF idx > Len(urls)
    THEN [kind |-> "raise", value |-> "ValueError", tried |-> tried, warned |-> tried]
    ELSE LET now == Append(tried, idx)
         IN  IF outs[idx] = "ok"
             THEN [kind |-> "ok", value |-> idx, tried |-> now, warned |-> tried]
             ELSE IF outs[idx] = "HTTPError"
             THEN IF idx = Len(urls)
                  THEN [kind |-> "raise", value |-> "HTTPError",
                        tried |-> now, warned |-> tried]
                  ELSE CycleFrom(urls, outs, idx + 1, now)
             ELSE [kind |-> "raise", value |-> outs[idx], tried |-> now, warned |-> tried]

open_extract_cycle_url(urls, outs) ==
    IF Len(urls) = 0
    THEN [kind |-> "raise", value |-> "ValueError", tried |-> <<>>, warned |-> <<>>]
    ELSE CycleFrom(urls, outs, 1, <<>>)

\* str.endswith
EndsWith(s, suffix) ==
    /\ Len(s) >= Len(suffix)
    /\ SubSeq(s, Len(s) - Len(suffix) + 1, Len(s)) = suffix

\* the sequence in reverse order
Reverse(seq) == [i \in 1..Len(seq) |-> seq[Len(seq) + 1 - i]]

\* the mutant: the objects are closed by hand after the yield, so that an
\* exception on the way leaves open what had been opened
OpenExtractUrlNoWith(idx, url, out) ==
    LET chain == IF EndsWith(url, <<".","z","i","p">>)
                 THEN <<"res", "reader", "fh_zip", "fh">>
                 ELSE <<"res", "reader">>
        n     == CASE out \in {"HTTPError", "URLError"} -> 0
                   [] out = "IncompleteRead" -> 1
                   [] out = "BadZipFile" -> 2
                   [] out = "KeyError" -> 3
                   [] OTHER -> Len(chain)
        entered == [i \in 1..n |-> <<idx, chain[i]>>]
    IN  [kind |-> IF out = "ok" THEN "yield" ELSE "raise", value |-> out,
         entered |-> entered,
         exited |-> IF out = "ok" THEN Reverse(entered) ELSE <<>>]

\* _open_extract_url, lines 134-142, for URL number idx.  out is what the
\* transfer does: "ok"; "HTTPError" or "URLError" raised by urlopen (line 134);
\* "IncompleteRead" raised by res.read() (line 135); for an archive,
\* "BadZipFile" raised by ZipFile (line 137) or "KeyError" by fh_zip.open
\* (line 138).  entered lists the objects whose with block was entered, exited
\* the objects closed on the way out: a with block closes its object when left,
\* by the end of the caller's block or by an exception.
open_extract_url(idx, url, out) ==
    LET chain == IF EndsWith(url, <<".","z","i","p">>)
                 THEN <<"res", "reader", "fh_zip", "fh">>
                 ELSE <<"res", "reader">>
        n     == CASE out \in {"HTTPError", "URLError"} -> 0
                   [] out = "IncompleteRead" -> 1
                   [] out = "BadZipFile" -> 2
                   [] out = "KeyError" -> 3
                   [] OTHER -> Len(chain)
        entered == [i \in 1..n |-> <<idx, chain[i]>>]
    IN  [kind |-> IF out = "ok" THEN "yield" ELSE "raise", value |-> out,
         entered |-> entered,
         exited |-> Reverse(entered)]

\* the elements of a sequence
Range(seq) == {seq[i] : i \in 1..Len(seq)}

\* lines 213-221 of get_raw_geo_data: the with statement on
\* _open_extract_cycle_url and its body.  body is what pd.read_csv does with the
\* file object: "ok" or "ParserError", which leaves through the generator (not
\* an HTTPError, it is not caught on line 162).  The streams are those of the
\* URLs tried.
OpenAndRead(urls, outs, body) ==
    LET r      == open_extract_cycle_url(urls, outs)
        failed == r.kind = "ok" /\ body # "ok"
        per    == [i \in Range(r.tried) |-> open_extract_url(i, urls[i], outs[i])]
        opened == UNION {Range(per[i].entered) : i \in Range(r.tried)}
        closed == UNION {Range(per[i].exited) : i \in Range(r.tried)}
    IN  [kind |-> IF failed THEN "raise" ELSE r.kind,
         value |-> IF failed THEN body ELSE r.value,
         tried |-> r.tried, warned |-> r.warned,
         opened |-> opened, open |-> opened \ closed]

\* the mutant: an existing raw file is read whatever force_download says
GetRawIgnoringForce(w, force, country, env) ==
    LET data_path == get_raw_geo_data_path(country)
    IN  IF Exists(w.files, data_path)
        THEN [w |-> w, kind |-> "table", value |-> ReadCsv(w.files[data_path][1]),
              io |-> {"read_raw"}]
        ELSE Bind(open_extract_cycle_url(DOWNLOAD_URL, env.outs), LAMBDA fh :
                 IF fh.kind = "raise"
                 THEN [w |-> w, kind |-> "raise", value |-> fh.value, io |-> {"fetch"}]
                 ELSE Bind(ReadCsv(env.data), LAMBDA data :
                          [w |-> [w EXCEPT !.files[data_path] = <<ToCsv(data)>>],
                           kind |-> "table", value |-> data,
                           io |-> {"fetch", "write_raw"}]))

\* the mutant: the raw file is opened for writing before the download, so
\* that a download that fails leaves it empty
GetRawTruncatingFirst(w, force, country, env) ==
    LET data_path == get_raw_geo_data_path(country)
    IN  IF Exists(w.files, data_path) /\ ~force
        THEN [w |-> w, kind |-> "table", value |-> ReadCsv(w.files[data_path][1]),
              io |-> {"read_raw"}]
        ELSE Bind(open_extract_cycle_url(DOWNLOAD_URL, env.outs), LAMBDA fh :
                 IF fh.kind = "raise"
                 THEN [w |-> [w EXCEPT !.files[data_path] = <<ToCsv(<<>>)>>],
                       kind |-> "raise", value |-> fh.value, io |-> {"fetch"}]
                 ELSE Bind(ReadCsv(env.data), LAMBDA data :
                          [w |-> [w EXCEPT !.files[data_path] = <<ToCsv(data)>>],
                           kind |-> "table", value |-> data,
                           io |-> {"fetch", "write_raw"}]))

\* get_raw_geo_data, lines 207-225.  env = [outs, data]: what the download
\* locations do and the text they serve, should the call download.
get_raw_geo_data(w, force, country, env) ==
    LET data_path == get_raw_geo_data_path(country)
    IN  IF Exists(w.files, data_path) /\ ~force
        THEN [w |-> w, kind |-> "table", value |-> ReadCsv(w.files[data_path][1]),
              io |-> {"read_raw"}]
        ELSE Bind(open_extract_cycle_url(DOWNLOAD_URL, env.outs), LAMBDA fh :
                 IF fh.kind = "raise"
                 THEN [w |-> w, kind |-> "raise", value |-> fh.value, io |-> {"fetch"}]
                 ELSE Bind(ReadCsv(env.data), LAMBDA data :
                          [w |-> [w EXCEPT !.files[data_path] = <<ToCsv(data)>>],
                           kind |-> "table", value |-> data,
                           io |-> {"fetch", "write_raw"}]))

\* the mutant: the in-process mapping is not consulted (no lines 239-240)
GetUniqueNoMemory(w, e, force, country0, env) ==
    LET country == StrUpper(country0)
    IN  IF ~IsKnownCountry(country)
        THEN [w |-> w, kind |-> "none", value |-> <<>>, io |-> {}, path |-> "invalid"]
        ELSE
        Bind(get_raw_geo_data(w, force, country, env), LAMBDA raw :
            IF raw.kind = "raise"
            THEN [w |-> raw.w, kind |-> "raise", value |-> raw.value,
                  io |-> raw.io, path |-> "failed"]
            ELSE
            LET unique_geo_data_path == get_unique_geo_data_path(country)
                fromDisk == Exists(raw.w.files, unique_geo_data_path) /\ ~force
                src      == IF fromDisk THEN raw.w.indexSrc[unique_geo_data_path][1]
                            ELSE raw.value
            IN  Bind(IF fromDisk
                     THEN ReadCsv(raw.w.files[unique_geo_data_path][1])
                     ELSE UniqueOf(raw.value), LAMBDA unique :
                LET w1      == IF fromDisk THEN raw.w
                               ELSE [raw.w EXCEPT
                                       !.files[unique_geo_data_path] = <<ToCsv(unique)>>,
                                       !.indexSrc[unique_geo_data_path] = <<src>>]
                    indexed == SetIndex(unique)
                    w2      == [w1 EXCEPT
                                  !.cache[e] = (country :> indexed) @@ w1.cache[e],
                                  !.cacheSrc[e] = (country :> src) @@ w1.cacheSrc[e]]
                IN  [w |-> w2, kind |-> "table", value |-> indexed,
                     io |-> raw.io \cup (IF fromDisk THEN {"read_index"}
                                         ELSE {"write_index"}),
                     path |-> IF fromDisk THEN "disk" ELSE "derived"]))

\* the mutant: a forced engine does not consult its in-process mapping
GetUniqueForcedBypassesMemory(w, e, force, country0, env) ==
    IF ~force /\ StrUpper(country0) \in DOMAIN w.cache[e]
    THEN [w |-> w, kind |-> "table", value |-> w.cache[e][StrUpper(country0)],
          io |-> {}, path |-> "memory"]
    ELSE GetUniqueNoMemory(w, e, force, country0, env)

\* the mutant: one mapping for all engines (a class attribute)
GetUniqueSharedMapping(w, e, force, country0, env) ==
    IF StrUpper(country0) \in DOMAIN w.cache[e]
    THEN [w |-> w, kind |-> "table", value |-> w.cache[e][StrUpper(country0)],
          io |-> {}, path |-> "memory"]
    ELSE Bind(GetUniqueNoMemory(w, e, force, country0, env), LAMBDA r :
             [r EXCEPT !.w.cache = [x \in Engines |-> r.w.cache[e]],
                       !.w.cacheSrc = [x \in Engines |-> r.w.cacheSrc[e]]])

\* the mutant: the mapping is keyed by the country as the caller wrote it
GetUniqueKeyAsGiven(w, e, force, country0, env) ==
    IF country0 \in DOMAIN w.cache[e]
    THEN [w |-> w, kind |-> "table", value |-> w.cache[e][country0],
          io |-> {}, path |-> "memory"]
    ELSE Bind(GetUniqueNoMemory(w, e, force, country0, env), LAMBDA r :
             IF r.kind # "table" THEN r
             ELSE [r EXCEPT !.w.cache[e] = (country0 :> r.value) @@ w.cache[e],
                            !.w.cacheSrc[e] = (country0 :> r.w.cacheSrc[e][StrUpper(country0)])
                                              @@ w.cacheSrc[e]])

\* get_unique_geo_data, lines 237-285
get_unique_geo_data(w, e, force, country0, env) ==
    LET country == StrUpper(country0)
    IN  IF country \in DOMAIN w.cache[e]
        THEN [w |-> w, kind |-> "table", value |-> w.cache[e][country],
              io |-> {}, path |-> "memory"]
        ELSE IF ~IsKnownCountry(country)
        THEN [w |-> w, kind |-> "none", value |-> <<>>, io |-> {}, path |-> "invalid"]
        ELSE
        Bind(get_raw_geo_data(w, force, country, env), LAMBDA raw :
            IF raw.kind = "raise"
            THEN [w |-> raw.w, kind |-> "raise", value |-> raw.value,
                  io |-> raw.io, path |-> "failed"]
            ELSE
            LET unique_geo_data_path == get_unique_geo_data_path(country)
                fromDisk == Exists(raw.w.files, unique_geo_data_path) /\ ~force
                src      == IF fromDisk THEN raw.w.indexSrc[unique_geo_data_path][1]
                            ELSE raw.value
            IN  Bind(IF fromDisk
                     THEN ReadCsv(raw.w.files[unique_geo_data_path][1])
                     ELSE UniqueOf(raw.value), LAMBDA unique :
                LET w1      == IF fromDisk THEN raw.w
                               ELSE [raw.w EXCEPT
                                       !.files[unique_geo_data_path] = <<ToCsv(unique)>>,
                                       !.indexSrc[unique_geo_data_path] = <<src>>]
                    indexed == SetIndex(unique)
                    w2      == [w1 EXCEPT
                                  !.cache[e] = (country :> indexed) @@ w1.cache[e],
                                  !.cacheSrc[e] = (country :> src) @@ w1.cacheSrc[e]]
                IN  [w |-> w2, kind |-> "table", value |-> indexed,
                     io |-> raw.io \cup (IF fromDisk THEN {"read_index"}
                                         ELSE {"write_index"}),
                     path |-> IF fromDisk THEN "disk" ELSE "derived"]))

\* DataFrame.loc[code, ['latitude', 'longitude']].values as a tuple: a KeyError
\* when no row has the label, the pair of the row when one has, the pairs of
\* all of them (a 2-D array) when several have
Loc(indexed, code) ==
    LET hits == SelectSeq(indexed, LAMBDA r : r.index = <<code>>)
    IN  IF hits = <<>> THEN [kind |-> "raise", value |-> "KeyError"]
        ELSE IF Len(hits) = 1
        THEN [kind |-> "point",
              value |-> <<hits[1].cols["latitude"], hits[1].cols["longitude"]>>]
        ELSE [kind |-> "points",
              value |-> [i \in 1..Len(hits) |->
                           <<hits[i].cols["latitude"], hits[i].cols["longitude"]>>]]

\* the mutant: the except clause returns None instead of raising again
GetGeolocationSwallowing(w, e, force, code, country, env) ==
    Bind(preprocess_postal_code(code, country), LAMBDA pre :
        IF pre.kind = "raise"
        THEN [w |-> w, kind |-> "raise", value |-> pre.value, io |-> {}, path |-> "none"]
        ELSE
        Bind(get_unique_geo_data(w, e, force, country, env), LAMBDA u :
            IF u.kind = "raise" THEN u
            ELSE IF u.kind = "none" THEN u
            ELSE Bind(Loc(u.value, pre.value), LAMBDA got :
                     IF got.kind = "raise"
                     THEN [u EXCEPT !.kind = "none", !.value = <<>>]
                     ELSE [u EXCEPT !.kind = got.kind, !.value = got.value])))

\* get_geolocation, lines 325-339
get_geolocation(w, e, force, code, country, env) ==
    Bind(preprocess_postal_code(code, country), LAMBDA pre :
        IF pre.kind = "raise"
        THEN [w |-> w, kind |-> "raise", value |-> pre.value, io |-> {}, path |-> "none"]
        ELSE
        Bind(get_unique_geo_data(w, e, force, country, env), LAMBDA u :
            IF u.kind = "raise" THEN u
            ELSE IF u.kind = "none"
            \* None.loc raises, and the except clause raises it again
            THEN [u EXCEPT !.kind = "raise", !.value = "AttributeError"]
            ELSE Bind(Loc(u.value, pre.value), LAMBDA got :
                     [u EXCEPT !.kind = got.kind, !.value = got.value])))

\* haversine.haversine(x, y), the library's function: an uninterpreted term
Haversine(x, y) == <<"haversine", x, y>>

\* query_geolocation, lines 376-379
query_geolocation(x, y) == IF x # y THEN Haversine(x, y) ELSE <<"int", 0>>

\* the mutant: no short cut for two identical arguments
QueryAlwaysLooksUp(w, e, force, code_x, country_x, code_y, country_y, envs) ==
    Bind(get_geolocation(w, e, force, code_x, country_x, envs[1]), LAMBDA gx :
        IF gx.kind = "raise" THEN gx
        ELSE
        Bind(get_geolocation(gx.w, e, force, code_y, country_y, envs[2]), LAMBDA gy :
            LET io == gx.io \cup gy.io
            IN  IF gy.kind = "raise" THEN [gy EXCEPT !.io = io]
                ELSE [gy EXCEPT !.kind = "number",
                                !.value = query_geolocation(gx.value, gy.value),
                                !.io = io]))

\* query_postal_code, lines 354-365.  envs[1] and envs[2] are the environments
\* of the first and of the second get_geolocation
query_postal_code(w, e, force, code_x, country_x, code_y, country_y, envs) ==
    IF code_x = code_y /\ country_x = country_y
    THEN [w |-> w, kind |-> "number", value |-> <<"int", 0>>, io |-> {}, path |-> "none"]
    ELSE
    Bind(get_geolocation(w, e, force, code_x, country_x, envs[1]), LAMBDA gx :
        IF gx.kind = "raise" THEN gx
        ELSE
        Bind(get_geolocation(gx.w, e, force, code_y, country_y, envs[2]), LAMBDA gy :
            LET io == gx.io \cup gy.io
            IN  IF gy.kind = "raise" THEN [gy EXCEPT !.io = io]
                ELSE IF gx.kind = "none" \/ gy.kind = "none"
                THEN [gy EXCEPT !.kind = "none", !.value = <<>>, !.io = io]
                ELSE [gy EXCEPT !.kind = "number",
                                !.value = query_geolocation(gx.value, gy.value),
                                !.io = io]))

(***************************************************************************)
(* The inputs of the model                                                 *)
(***************************************************************************)
GB == <<"G","B">>

\* the country arguments: a catalogued country, in upper and in lower case, and
\* a code outside the catalogue
CountryArgs == {GB, <<"g","b">>, <<"Z","Z">>}

\* the file names the country arguments lead to
RawPaths == {get_raw_geo_data_path(c) : c \in CountryArgs}

IndexPaths == {get_unique_geo_data_path(c) : c \in CountryArgs}

\* a line of a downloaded file; a coordinate n stands for the text of n
Line(code, place, state, lat, lon) ==
    [f \in Fields |->
        CASE f = "postal_code" -> code
          [] f = "place_name"  -> place
          [] f = "state_name"  -> state
          [] f = "latitude"    -> IF lat = <<>> THEN <<>> ELSE <<Frac(lat[1], 1)>>
          [] f = "longitude"   -> IF lon = <<>> THEN <<>> ELSE <<Frac(lon[1], 1)>>]

L1 == Line(<< <<"0","1">> >>, << <<"A">> >>, << <<"X">> >>, <<0>>, <<0>>)
L2 == Line(<< <<"0","1">> >>, << <<"B">> >>, << <<"Y">> >>, <<2>>, <<4>>)
L3 == Line(<< <<"0","1">> >>, <<>>, <<>>, <<>>, <<1>>)
L4 == Line(<< <<"N","1">> >>, << <<"C">> >>, << <<"X">> >>, <<1>>, <<1>>)
L5 == Line(<<>>, << <<"D">> >>, << <<"Y">> >>, <<3>>, <<3>>)
L6 == Line(<< <<"1">> >>, << <<"N","A">> >>, << <<"Y">> >>, <<-1>>, <<3>>)

LinePool == {L1, L2, L3, L4, L5, L6}

\* the downloaded files of at most n lines
RECURSIVE TextsUpTo(_)
TextsUpTo(n) ==
    IF n = 0 THEN {<<>>}
    ELSE LET shorter == TextsUpTo(n - 1)
         IN  shorter \cup {Append(t, l) : t \in {u \in shorter : Len(u) = n - 1}, l \in LinePool}

\* the files the download locations serve in the full engine model
Data1 == <<L1, L2, L4>>
Data2 == <<L3, L1, L6>>

\* what the two download locations do, and the file the one that answers serves
Envs == {[outs |-> <<"ok", "ok">>, data |-> Data1],
         [outs |-> <<"HTTPError", "ok">>, data |-> Data2],
         [outs |-> <<"HTTPError", "HTTPError">>, data |-> Data1],
         [outs |-> <<"URLError", "ok">>, data |-> Data1]}

\* the (code, country) arguments of the queries: a code of both files, a code
\* with an inward part, an int, a code of blanks, and a country outside the
\* catalogue
C01 == <<"str", <<"0","1">>>>
CN1 == <<"str", <<"n","1"," ","1","a","a">>>>

GeoArgs == {<<C01, GB>>, <<CN1, <<"g","b">>>>, <<<<"int", 1>>, GB>>,
            <<<<"str", <<" ">>>>, GB>>, <<C01, <<"Z","Z">>>>}

PairArgs == {<<C01, GB>>, <<CN1, <<"g","b">>>>, <<C01, <<"Z","Z">>>>}

World == [files |-> files, cache |-> cache, indexSrc |-> indexSrc, cacheSrc |-> cacheSrc]

\* the world an operation leaves, and the record of the call
Commit(r, op, e, args) ==
    /\ files' = r.w.files
    /\ cache' = r.w.cache
    /\ indexSrc' = r.w.indexSrc
    /\ cacheSrc' = r.w.cacheSrc
    /\ last' = [op |-> op, engine |-> e, args |-> args, kind |-> r.kind,
                value |-> r.value, io |-> r.io, path |-> r.path]
    /\ UNCHANGED <<force_download, run>>

\* no call in progress: a call of the engine model is made in one step.  In the
\* interleaved model run[e] is the position of engine e's get_unique_geo_data
\* and its local variables; wrote is the set of files that e was the last to
\* write.
Idle == [pc |-> "idle", country |-> <<>>, raw_geo_data |-> <<>>,
         unique_geo_data |-> <<>>, kind |-> "none", wrote |-> {}]

NotRunning == [e \in Engines |-> Idle]

NoCall == [op |-> "init", engine |-> "A", args |-> <<>>, kind |-> "none",
           value |-> <<>>, io |-> {}, path |-> "none"]

\* GlobalGeoDistance.__init__ of every engine, on an empty storage directory
Init ==
    /\ files = [p \in RawPaths \cup IndexPaths |-> <<>>]
    /\ cache = [e \in Engines |-> <<>>]
    /\ force_download = [e \in Engines |-> e = "B"]
    /\ indexSrc = [p \in IndexPaths |-> <<>>]
    /\ cacheSrc = [e \in Engines |-> <<>>]
    /\ run = NotRunning
    /\ last = NoCall

\* get_raw_geo_data called by itself, for a country of the catalogue
GetRaw(e, country, env) ==
    /\ StrUpper(country) \in COUNTRIES_VALID
    /\ \E r \in {get_raw_geo_data(World, force_download[e], country, env)} :
          Commit([w |-> r.w, kind |-> r.kind, value |-> r.value, io |-> r.io,
                  path |-> "none"],
                 "get_raw_geo_data", e, <<country>>)

GetUnique(e, country, env) ==
    \E r \in {get_unique_geo_data(World, e, force_download[e], country, env)} :
       Commit(r, "get_unique_geo_data", e, <<country>>)

GetGeolocation(e, code, country, env) ==
    \E r \in {get_geolocation(World, e, force_download[e], code, country, env)} :
       Commit(r, "get_geolocation", e, <<code, country>>)

QueryPostalCode(e, x, y, envs) ==
    \E r \in {query_postal_code(World, e, force_download[e],
                                x[1], x[2], y[1], y[2], envs)} :
       Commit(r, "query_postal_code", e, <<x[1], x[2], y[1], y[2]>>)

Next ==
    \/ \E e \in Engines, c \in CountryArgs, env \in Envs : GetRaw(e, c, env)
    \/ \E e \in Engines, c \in CountryArgs, env \in Envs : GetUnique(e, c, env)
    \/ \E e \in Engines, a \in GeoArgs, env \in Envs :
          GetGeolocation(e, a[1], a[2], env)
    \/ \E e \in Engines, x \in PairArgs, y \in PairArgs, env \in Envs :
          QueryPostalCode(e, x, y, <<env, env>>)

Spec == Init /\ [][Next]_vars

(***************************************************************************)
(* preprocess_postal_code by itself: the initial state holds the call, the *)
(* one step makes it.                                                      *)
(***************************************************************************)
\* the characters of the enumerated codes: a letter, a digit, a blank
CodeChars == {"n", "1", " "}

RECURSIVE CodesUpTo(_)
CodesUpTo(n) ==
    IF n = 0 THEN {<<>>}
    ELSE LET shorter == CodesUpTo(n - 1)
         IN  shorter \cup {Append(t, ch) : t \in {u \in shorter : Len(u) = n - 1}, ch \in CodeChars}

CodeInputs ==
    {<<"str", s>> : s \in CodesUpTo(MaxCodeLen)}
    \cup {<<"str", <<"1","2","3","4","5"," ">>>>, CN1, <<"str", <<"\t">>>>}
    \cup {<<"int", 0>>, <<"int", 7>>, <<"int", 10001>>}

CountryInputs == {<<"U","S">>, <<"u","s">>, GB, <<"g","b">>, <<"i","E">>, <<"C","A">>}

InitNormalize ==
    /\ files = [p \in RawPaths \cup IndexPaths |-> <<>>]
    /\ cache = [e \in Engines |-> <<>>]
    /\ force_download = [e \in Engines |-> e = "B"]
    /\ indexSrc = [p \in IndexPaths |-> <<>>]
    /\ cacheSrc = [e \in Engines |-> <<>>]
    /\ run = NotRunning
    /\ \E code \in CodeInputs, country \in CountryInputs :
          last = [NoCall EXCEPT !.op = "call", !.args = <<code, country>>]

Normalize ==
    /\ last.op = "call"
    /\ LET r == preprocess_postal_code(last.args[1], last.args[2])
       IN  last' = [last EXCEPT !.op = "preprocess_postal_code",
                                !.kind = r.kind, !.value = r.value]
    /\ UNCHANGED <<files, cache, force_download, indexSrc, cacheSrc, run>>

NextNormalize == Normalize

SpecNormalize == InitNormalize /\ [][NextNormalize]_vars

(***************************************************************************)
(* The first get_unique_geo_data on an empty storage directory, for every  *)
(* downloaded file of at most MaxRows lines.                               *)
(***************************************************************************)
FirstLoad(e, country, outs, data) ==
    /\ last.op = "init"
    /\ GetUnique(e, country, [outs |-> outs, data |-> data])

NextFirstLoad ==
    \E e \in Engines, c \in {GB, <<"g","b">>},
       outs \in {<<"ok", "ok">>, <<"HTTPError", "ok">>},
       data \in TextsUpTo(MaxRows) : FirstLoad(e, c, outs, data)

SpecFirstLoad == Init /\ [][NextFirstLoad]_vars

(***************************************************************************)
(* The first get_unique_geo_data on a storage directory that holds the     *)
(* unique file of a country, with or without the country's raw file.       *)
(***************************************************************************)
\* the storage directory: the unique file derived from a download of one to
\* MaxStoredRows lines, and the raw file of that download when rawKept
StoredFiles(data, rawKept) ==
    [p \in RawPaths \cup IndexPaths |->
        IF p = get_unique_geo_data_path(GB) THEN <<ToCsv(UniqueOf(ReadCsv(data)))>>
        ELSE IF p = get_raw_geo_data_path(GB) /\ rawKept THEN <<ToCsv(ReadCsv(data))>>
        ELSE <<>>]

InitStored ==
    /\ \E data \in TextsUpTo(MaxStoredRows) \ {<<>>}, rawKept \in BOOLEAN :
          /\ files = StoredFiles(data, rawKept)
          /\ indexSrc = [p \in IndexPaths |->
                            IF p = get_unique_geo_data_path(GB)
                            THEN <<ReadCsv(data)>> ELSE <<>>]
    /\ cache = [e \in Engines |-> <<>>]
    /\ force_download = [e \in Engines |-> e = "B"]
    /\ cacheSrc = [e \in Engines |-> <<>>]
    /\ run = NotRunning
    /\ last = NoCall

StoredLoad(e, country, env) ==
    /\ last.op = "init"
    /\ GetUnique(e, country, env)

NextStored ==
    \E e \in Engines, c \in {GB, <<"g","b">>}, env \in Envs : StoredLoad(e, c, env)

SpecStored == InitStored /\ [][NextStored]_vars

(***************************************************************************)
(* The download by itself: the initial state holds the list of locations,  *)
(* what each of them does and what the parse of the file does; the one     *)
(* step makes the call.                                                    *)
(***************************************************************************)
\* a location of an archive and a location of a text file
UrlZip == <<"a", ".", "z", "i", "p">>
UrlTxt == <<"b", ".", "t", "x", "t">>

\* what a transfer from a location can do
OutsOf(url) ==
    {"ok", "HTTPError", "URLError", "IncompleteRead"}
    \cup (IF EndsWith(url, <<".","z","i","p">>) THEN {"BadZipFile", "KeyError"} ELSE {})

\* the lists of at most n locations, each with what its transfer does
RECURSIVE AttemptsUpTo(_)
AttemptsUpTo(n) ==
    IF n = 0 THEN {<<>>}
    ELSE LET shorter == AttemptsUpTo(n - 1)
             steps   == UNION {{<<u, o>> : o \in OutsOf(u)} : u \in {UrlZip, UrlTxt}}
         IN  shorter \cup {Append(t, a) :
                              t \in {x \in shorter : Len(x) = n - 1}, a \in steps}

InitFetch ==
    /\ files = [p \in RawPaths \cup IndexPaths |-> <<>>]
    /\ cache = [e \in Engines |-> <<>>]
    /\ force_download = [e \in Engines |-> e = "B"]
    /\ indexSrc = [p \in IndexPaths |-> <<>>]
    /\ cacheSrc = [e \in Engines |-> <<>>]
    /\ run = NotRunning
    /\ \E att \in AttemptsUpTo(MaxUrls), body \in {"ok", "ParserError"} :
          last = [NoCall EXCEPT !.op = "call",
                                !.args = <<[i \in 1..Len(att) |-> att[i][1]],
                                           [i \in 1..Len(att) |-> att[i][2]],
                                           body>>]

Fetch ==
    /\ last.op = "call"
    /\ \E r \in {OpenAndRead(last.args[1], last.args[2], last.args[3])} :
          last' = [last EXCEPT !.op = "_open_extract_cycle_url",
                               !.kind = r.kind, !.value = r]
    /\ UNCHANGED <<files, cache, force_download, indexSrc, cacheSrc, run>>

NextFetch == Fetch

SpecFetch == InitFetch /\ [][NextFetch]_vars

(***************************************************************************)
(* Two forced-refresh engines on one storage directory, each making one    *)
(* get_unique_geo_data, the two calls interleaved between their file       *)
(* operations.  The code takes no lock, so a step of one call is enabled   *)
(* wherever the other call stands.                                         *)
(***************************************************************************)
\* the mutant: a file that exists is left as it is (the first writer wins)
WriteFileKeepingExisting(fs, path, table) ==
    IF Exists(fs, path) THEN fs ELSE [fs EXCEPT ![path] = <<ToCsv(table)>>]

\* DataFrame.to_csv(path, index=None), lines 223 and 280: the file is replaced
WriteFile(fs, path, table) == [fs EXCEPT ![path] = <<ToCsv(table)>>]

\* engine e moves to position pc with the local variables of upd (a record of
\* some of the fields of run[e]) and becomes the last writer of the files of
\* written
Moved(e, upd, written) ==
    [x \in Engines |->
        IF x = e
        THEN [f \in DOMAIN run[e] |->
                 IF f = "wrote" THEN run[e].wrote \cup written
                 ELSE IF f \in DOMAIN upd THEN upd[f] ELSE run[e][f]]
        ELSE [run[x] EXCEPT !.wrote = @ \ written]]

InitRace ==
    /\ files = [p \in RawPaths \cup IndexPaths |-> <<>>]
    /\ cache = [e \in Engines |-> <<>>]
    /\ force_download = [e \in Engines |-> TRUE]
    /\ indexSrc = [p \in IndexPaths |-> <<>>]
    /\ cacheSrc = [e \in Engines |-> <<>>]
    /\ run = NotRunning
    /\ last = NoCall

\* lines 237-257: the call, the mapping and the catalogue
RaceBegin(e, country0) ==
    /\ run[e].pc = "idle"
    /\ LET country == StrUpper(country0)
       IN  run' = Moved(e,
                    IF country \in DOMAIN cache[e]
                    THEN [pc |-> "done", country |-> country, kind |-> "table",
                          unique_geo_data |-> cache[e][country]]
                    ELSE IF ~IsKnownCountry(country)
                    THEN [pc |-> "done", country |-> country, kind |-> "none"]
                    ELSE [pc |-> "get_raw", country |-> country], {})
    /\ UNCHANGED <<files, cache, force_download, indexSrc, cacheSrc, last>>

\* lines 207-221: the raw file read, or the download and its parse
RaceGetRaw(e, env) ==
    /\ run[e].pc = "get_raw"
    /\ LET data_path == get_raw_geo_data_path(run[e].country)
       IN  IF Exists(files, data_path) /\ ~force_download[e]
           THEN run' = Moved(e, [pc |-> "index",
                                 raw_geo_data |-> ReadCsv(files[data_path][1])], {})
           ELSE \E fh \in {open_extract_cycle_url(DOWNLOAD_URL, env.outs)} :
                   IF fh.kind = "raise"
                   THEN run' = Moved(e, [pc |-> "done", kind |-> "raise"], {})
                   ELSE run' = Moved(e, [pc |-> "to_csv",
                                         raw_geo_data |-> ReadCsv(env.data)], {})
    /\ UNCHANGED <<files, cache, force_download, indexSrc, cacheSrc, last>>

\* lines 222-225: the raw file written
RaceWriteRaw(e) ==
    /\ run[e].pc = "to_csv"
    /\ LET data_path == get_raw_geo_data_path(run[e].country)
       IN  /\ files' = WriteFile(files, data_path, run[e].raw_geo_data)
           /\ run' = Moved(e, [pc |-> "index"], {data_path})
    /\ UNCHANGED <<cache, force_download, indexSrc, cacheSrc, last>>

\* lines 261-280: the unique file read, or the table derived and the file
\* written
RaceIndex(e) ==
    /\ run[e].pc = "index"
    /\ LET unique_geo_data_path == get_unique_geo_data_path(run[e].country)
       IN  IF Exists(files, unique_geo_data_path) /\ ~force_download[e]
           THEN /\ run' = Moved(e, [pc |-> "store",
                                    raw_geo_data |-> indexSrc[unique_geo_data_path][1],
                                    unique_geo_data |->
                                        ReadCsv(files[unique_geo_data_path][1])], {})
                /\ UNCHANGED <<files, indexSrc>>
           ELSE \E unique \in {UniqueOf(run[e].raw_geo_data)} :
                   /\ files' = WriteFile(files, unique_geo_data_path, unique)
                   /\ indexSrc' = [indexSrc EXCEPT
                                      ![unique_geo_data_path] = <<run[e].raw_geo_data>>]
                   /\ run' = Moved(e, [pc |-> "store", unique_geo_data |-> unique],
                                   {unique_geo_data_path})
    /\ UNCHANGED <<cache, force_download, cacheSrc, last>>

\* lines 282-285: the table indexed, stored in the mapping and returned
RaceStore(e) ==
    /\ run[e].pc = "store"
    /\ cache' = [cache EXCEPT ![e] = (run[e].country :> SetIndex(run[e].unique_geo_data))
                                     @@ cache[e]]
    /\ cacheSrc' = [cacheSrc EXCEPT ![e] = (run[e].country :> run[e].raw_geo_data)
                                           @@ cacheSrc[e]]
    /\ run' = Moved(e, [pc |-> "done", kind |-> "table"], {})
    /\ UNCHANGED <<files, force_download, indexSrc, last>>

NextRace ==
    \/ \E e \in Engines, c \in CountryArgs : RaceBegin(e, c)
    \/ \E e \in Engines, env \in Envs : RaceGetRaw(e, env)
    \/ \E e \in Engines : RaceWriteRaw(e)
    \/ \E e \in Engines : RaceIndex(e)
    \/ \E e \in Engines : RaceStore(e)

SpecRace == InitRace /\ [][NextRace]_vars

(***************************************************************************)
(* The properties                                                          *)
(***************************************************************************)
\* the last call was a get_unique_geo_data that derived the table (lines 268-280)
DerivedCall == last.op = "get_unique_geo_data" /\ last.path = "derived"

\* the raw table (raw_geo_data) the table of the last get_unique_geo_data came from
RawOfLast == cacheSrc[last.engine][StrUpper(last.args[1])]

\* the rows of a raw table with the postal code of an index cell, in order
RowsOf(raw, cell) == SelectSeq(raw, LAMBDA r : r["postal_code"] = cell)

\* the columns that are neither the key, a coordinate nor the place name
OtherFields == Fields \ {"postal_code", "latitude", "longitude", "place_name"}

\* the names of cells 1..n joined by ", ", a missing name written nan
RECURSIVE NamesUpTo(_, _)
NamesUpTo(cells, n) ==
    IF n = 1 THEN StrOfCell(cells[1])
    ELSE NamesUpTo(cells, n - 1) \o <<",", " ">> \o StrOfCell(cells[n])

\* c is the first cell of cells that is not NaN, NaN when all are
IsFirstPresent(c, cells) ==
    \/ c = NaN /\ \A i \in 1..Len(cells) : cells[i] = NaN
    \/ c # NaN /\ \E i \in 1..Len(cells) :
                     cells[i] = c /\ \A j \in 1..(i - 1) : cells[j] = NaN

\* C1: when get_unique_geo_data derives the unique table, the latitude of the
\* row of a postal code is the arithmetic mean of the latitudes of the raw rows
\* with that postal code.
C1_LatitudeIsMean ==
    DerivedCall =>
        \A i \in 1..Len(last.value) :
            last.value[i].cols["latitude"]
                = GroupMean(Col(RowsOf(RawOfLast, last.value[i].index), "latitude"))

\* C2 as stated: when get_unique_geo_data derives the unique table, the place
\* name of a row is the place names of the raw rows with its postal code joined
\* by ", " in raw order, and every other field (not the key, not a coordinate)
\* is the value of the first raw row with that postal code.
C2_FieldsOfFirstRow ==
    DerivedCall =>
        \A i \in 1..Len(last.value) :
            LET g == RowsOf(RawOfLast, last.value[i].index)
            IN  /\ last.value[i].cols["place_name"]
                      = <<NamesUpTo(Col(g, "place_name"), Len(g))>>
                /\ \A f \in OtherFields : last.value[i].cols[f] = g[1][f]

\* C2 amended: as C2, but every other field is the first value that is not
\* missing among the raw rows with that postal code, and missing when all are.
C2_FirstPresentFields ==
    DerivedCall =>
        \A i \in 1..Len(last.value) :
            LET g == RowsOf(RawOfLast, last.value[i].index)
            IN  /\ last.value[i].cols["place_name"]
                      = <<NamesUpTo(Col(g, "place_name"), Len(g))>>
                /\ \A f \in OtherFields : IsFirstPresent(last.value[i].cols[f], Col(g, f))

\* a derived table with a postal code whose first raw row lacks a field that a
\* later raw row has
C2_Witness ==
    /\ DerivedCall
    /\ \E i \in 1..Len(last.value) :
          LET g == RowsOf(RawOfLast, last.value[i].index)
          IN  /\ Len(g) >= 2
              /\ g[1]["state_name"] = NaN
              /\ last.value[i].cols["state_name"] # NaN
              /\ g[1]["place_name"] = NaN

Distinct(seq) == \A i, j \in 1..Len(seq) : i # j => seq[i] # seq[j]

\* the postal codes of a raw table, as index cells
CodesOf(raw) == {raw[i]["postal_code"] : i \in 1..Len(raw)} \ {NaN}

\* C3: for a country of the catalogue, the table get_unique_geo_data returns
\* (from the in-process mapping, from the unique file or derived) has pairwise
\* distinct postal codes and one row for every postal code of the raw table it
\* was derived from.
C3_UniqueTable ==
    /\ \A e \in Engines : \A c \in DOMAIN cache[e] :
          /\ Distinct(IndexOf(cache[e][c]))
          /\ {cache[e][c][i].index : i \in 1..Len(cache[e][c])} = CodesOf(cacheSrc[e][c])
    /\ (last.op = "get_unique_geo_data" /\ StrUpper(last.args[1]) \in COUNTRIES_VALID) =>
          /\ last.kind \in {"table", "raise"}
          /\ last.kind = "table" =>
                /\ last.value = cache[last.engine][StrUpper(last.args[1])]
                /\ Distinct(IndexOf(last.value))

\* a table read from the unique file, of two postal codes, whose raw table has
\* several rows for one postal code
C3_Witness ==
    /\ last.op = "get_unique_geo_data"
    /\ last.path = "disk"
    /\ Len(last.value) >= 2
    /\ Len(RawOfLast) > Len(last.value)

IdenticalPair == last.args[1] = last.args[3] /\ last.args[2] = last.args[4]

\* C4: query_postal_code on two identical (code, country) arguments returns 0,
\* for a country outside the catalogue too, and makes no transfer: no download,
\* no file read or written, the in-process mapping unchanged.
C4_IdenticalPairIsZero ==
    [][(last'.op = "query_postal_code"
            /\ last'.args[1] = last'.args[3] /\ last'.args[2] = last'.args[4])
        => /\ last'.kind = "number"
           /\ last'.value = <<"int", 0>>
           /\ last'.io = {}
           /\ files' = files
           /\ cache' = cache]_vars

\* an identical pair with a country outside the catalogue, on an engine that
\* has loaded a country
C4_Witness ==
    /\ last.op = "query_postal_code"
    /\ IdenticalPair
    /\ StrUpper(last.args[2]) \notin COUNTRIES_VALID
    /\ last.kind = "number"
    /\ cache[last.engine] # <<>>

\* C5: for a country code outside the catalogue (after upper-casing),
\* get_unique_geo_data returns None and does not raise, in every engine state;
\* it downloads nothing, writes no file and adds nothing to the mapping.
C5_UnknownCountryIsNone ==
    [][(last'.op = "get_unique_geo_data"
            /\ StrUpper(last'.args[1]) \notin COUNTRIES_VALID)
        => /\ last'.kind = "none"
           /\ last'.io = {}
           /\ files' = files
           /\ cache' = cache]_vars

\* None for a country outside the catalogue, on an engine that has loaded a
\* country and with files on disk
C5_Witness ==
    /\ last.op = "get_unique_geo_data"
    /\ StrUpper(last.args[1]) \notin COUNTRIES_VALID
    /\ last.kind = "none"
    /\ cache[last.engine] # <<>>
    /\ \E p \in RawPaths : Exists(files, p)

\* the step is the first get_unique_geo_data(c) of its engine, for a country of
\* the catalogue whose two files exist
FirstCallWithBothFiles ==
    /\ last'.op = "get_unique_geo_data"
    /\ StrUpper(last'.args[1]) \in COUNTRIES_VALID
    /\ StrUpper(last'.args[1]) \notin DOMAIN cache[last'.engine]
    /\ Exists(files, get_raw_geo_data_path(last'.args[1]))
    /\ Exists(files, get_unique_geo_data_path(last'.args[1]))

Writes == {"write_raw", "write_index"}

\* C6 as stated: with both files of a country on disk, the first
\* get_unique_geo_data of a forced-refresh engine downloads and rewrites both
\* files; that of a non-forced engine downloads nothing and writes no file.
C6_ForcedRewritesBoth ==
    [][FirstCallWithBothFiles =>
        IF force_download[last'.engine]
        THEN ({"fetch"} \cup Writes) \subseteq last'.io
        ELSE last'.io \cap ({"fetch"} \cup Writes) = {} /\ files' = files]_vars

\* C6 amended: the forced-refresh engine downloads, and rewrites both files
\* when the download succeeds; when it fails the call raises and the files are
\* left as they were.  The non-forced engine downloads nothing and writes no
\* file.
C6_ForcedRewritesOnSuccess ==
    [][FirstCallWithBothFiles =>
        IF force_download[last'.engine]
        THEN /\ "fetch" \in last'.io
             /\ last'.kind \in {"table", "raise"}
             /\ last'.kind = "table" =>
                   /\ Writes \subseteq last'.io
                   /\ files'[get_unique_geo_data_path(last'.args[1])]
                         = <<ToCsv(UniqueOf(ReadCsv(
                              files'[get_raw_geo_data_path(last'.args[1])][1])))>>
             /\ last'.kind = "raise" => last'.io = {"fetch"} /\ files' = files
        ELSE /\ last'.kind = "table"
             /\ last'.io = {"read_raw", "read_index"}
             /\ files' = files]_vars

\* a forced-refresh engine has just derived its table although the other
\* engine had loaded the country before, from another download
C6_Witness ==
    /\ last.op = "get_unique_geo_data"
    /\ last.path = "derived"
    /\ force_download[last.engine]
    /\ \E e \in Engines \ {last.engine} :
          /\ ~force_download[e]
          /\ StrUpper(last.args[1]) \in DOMAIN cache[e]
          /\ cacheSrc[e][StrUpper(last.args[1])] # RawOfLast

\* the text without its trailing whitespace
RECURSIVE RStrip(_)
RStrip(s) ==
    IF s # <<>> /\ IsSpace(s[Len(s)]) THEN RStrip(SubSeq(s, 1, Len(s) - 1)) ELSE s

\* the last call normalised a text for a country that is none of GB, IE, CA
PlainCall ==
    /\ last.op = "preprocess_postal_code"
    /\ ~IsInt(last.args[1])
    /\ StrUpper(last.args[2]) \notin LEADING_SEGMENT_COUNTRIES

\* C7 as stated: for a country outside {GB, IE, CA} the normalised code is the
\* upper-cased code without its trailing whitespace ("12345 " gives "12345").
C7_TrailingBlanksRemoved ==
    PlainCall => last.kind = "string" /\ last.value = RStrip(StrUpper(last.args[1][2]))

\* C7 amended: for a country outside {GB, IE, CA} the normalised code is the
\* code upper-cased character by character, its whitespace kept ("12345 " gives
\* "12345 ").
C7_UppercasedOnly ==
    PlainCall =>
        /\ last.kind = "string"
        /\ Len(last.value) = Len(last.args[1][2])
        /\ \A i \in 1..Len(last.value) : last.value[i] = UpperChar(last.args[1][2][i])

\* normalize("12345 ", "US") has been made and kept the blank
C7_Witness ==
    /\ PlainCall
    /\ last.args = <<<<"str", <<"1","2","3","4","5"," ">>>>, <<"U","S">>>>
    /\ last.value = <<"1","2","3","4","5"," ">>

\* v is the first whitespace-delimited segment of s
IsFirstSegment(v, s) ==
    /\ v # <<>>
    /\ \A k \in 1..Len(v) : ~IsSpace(v[k])
    /\ \E i \in 1..Len(s) :
          /\ \A j \in 1..(i - 1) : IsSpace(s[j])
          /\ i + Len(v) - 1 <= Len(s)
          /\ SubSeq(s, i, i + Len(v) - 1) = v
          /\ (i + Len(v) > Len(s) \/ IsSpace(s[i + Len(v)]))

\* C8: for a country that upper-cases to GB, IE or CA, normalising a non-empty
\* text gives the upper-cased first whitespace-delimited segment, the empty
\* text gives the empty text, and no text makes it raise.
C8_LeadingSegmentNeverRaises ==
    (/\ last.op = "preprocess_postal_code"
     /\ ~IsInt(last.args[1])
     /\ StrUpper(last.args[2]) \in LEADING_SEGMENT_COUNTRIES)
    => /\ last.kind = "string"
       /\ IF last.args[1][2] = <<>> THEN last.value = <<>>
          ELSE IsFirstSegment(last.value, StrUpper(last.args[1][2]))

C10_InvalidCountryYieldsNone ==
    (/\ last.op = "query_postal_code"
     /\ ~IdenticalPair
     /\ \/ StrUpper(last.args[2]) \notin COUNTRIES_VALID
        \/ StrUpper(last.args[4]) \notin COUNTRIES_VALID
     /\ ~(last.kind = "raise"
          /\ last.value \in {"HTTPError", "URLError", "ValueError", "IndexError", "KeyError"}))
    => last.kind = "none"

\* C11: an entry of an engine's in-process mapping is never replaced, recomputed
\* or removed by any call of any engine, whatever becomes of the files on disk,
\* and every later get_unique_geo_data for its country returns that very table.
C11_EntryNeverReplaced ==
    [][\A e \in Engines : \A c \in DOMAIN cache[e] :
          /\ c \in DOMAIN cache'[e]
          /\ cache'[e][c] = cache[e][c]
          /\ (last'.op = "get_unique_geo_data" /\ last'.engine = e
                  /\ StrUpper(last'.args[1]) = c)
             => (last'.kind = "table" /\ last'.value = cache[e][c])]_vars

\* the non-forced engine answers from its mapping a table that is no longer the
\* one of the unique file, which the forced engine has rewritten from other data
C11_Witness ==
    /\ last.op = "get_unique_geo_data"
    /\ last.engine = "A"
    /\ last.path = "memory"
    /\ Exists(files, get_unique_geo_data_path(last.args[1]))
    /\ SetIndex(ReadCsv(files[get_unique_geo_data_path(last.args[1])][1])) # last.value

\* the countries, in upper case, of the call that the step makes
CountriesOfStep ==
    CASE last'.op \in {"get_unique_geo_data", "get_raw_geo_data"}
             -> {StrUpper(last'.args[1])}
      [] last'.op = "get_geolocation" -> {StrUpper(last'.args[2])}
      [] last'.op = "query_postal_code"
             -> {StrUpper(last'.args[2]), StrUpper(last'.args[4])}
      [] OTHER -> {}

\* C12: on a forced-refresh engine whose mapping holds country c (one
\* get_unique_geo_data(c) has succeeded), no later get_unique_geo_data(c),
\* get_geolocation(_, c) or query_postal_code involving c downloads or writes a
\* file; so a call of these that downloads c finds c absent from the mapping.
C12_ForcedKeepsMapping ==
    [][\A e \in Engines : \A c \in DOMAIN cache[e] :
          (/\ force_download[e]
           /\ last'.engine = e
           /\ last'.op \in {"get_unique_geo_data", "get_geolocation", "query_postal_code"}
           /\ c \in CountriesOfStep)
          => /\ last'.io = {}
             /\ files' = files]_vars

\* the forced engine computes a distance between two postal codes of a country
\* of its mapping, with the country's files on disk
C12_Witness ==
    /\ last.op = "query_postal_code"
    /\ force_download[last.engine]
    /\ last.kind = "number"
    /\ last.value # <<"int", 0>>
    /\ last.io = {}
    /\ StrUpper(last.args[2]) \in DOMAIN cache[last.engine]
    /\ Exists(files, get_raw_geo_data_path(last.args[2]))

\* C13: on a non-forced engine, get_unique_geo_data(c) for a country of the
\* catalogue that is not in the mapping and whose unique file exists returns
\* the table of that file without a download and without writing the raw file,
\* whether the raw file exists or not.
C13_UniqueFileAnswersAlone ==
    [][(/\ last'.op = "get_unique_geo_data"
        /\ ~force_download[last'.engine]
        /\ StrUpper(last'.args[1]) \in COUNTRIES_VALID
        /\ StrUpper(last'.args[1]) \notin DOMAIN cache[last'.engine]
        /\ Exists(files, get_unique_geo_data_path(last'.args[1])))
       => /\ last'.kind = "table"
          /\ last'.value
                = SetIndex(ReadCsv(files[get_unique_geo_data_path(last'.args[1])][1]))
          /\ "fetch" \notin last'.io
          /\ files' = files]_vars

\* the last step was a download from a list of at least one location
Fetched == last.op = "_open_extract_cycle_url" /\ Len(last.args[1]) >= 1

\* the failures of a transfer that are transport failures: a response that is
\* not 2xx, and a failure of the network before or during the transfer
TransportFailures == {"HTTPError", "URLError", "IncompleteRead"}

\* C14: a transport failure, of either kind, of a location that is not the last
\* one is followed by a warning and by the attempt of the next location; so the
\* call fails with a transport failure only after the last location was tried.
C14_FallbackOnAnyTransportFailure ==
    Fetched =>
        LET outs == last.args[2]
            r    == last.value
        IN  /\ \A i \in Range(r.tried) :
                  (outs[i] \in TransportFailures /\ i < Len(outs))
                  => (i \in Range(r.warned) /\ i + 1 \in Range(r.tried))
            /\ (r.kind = "raise" /\ r.value \in TransportFailures)
                  => Len(outs) \in Range(r.tried)

\* C15: in one call the locations are tried in the order of the list, each at
\* most once; a location is tried only after the one before it has failed, and
\* none is tried after one that worked.
C15_InOrderEachOnce ==
    Fetched =>
        LET outs == last.args[2]
            r    == last.value
        IN  /\ Len(r.tried) \in 1..Len(outs)
            /\ r.tried = [i \in 1..Len(r.tried) |-> i]
            /\ \A i \in 1..(Len(r.tried) - 1) : outs[i] # "ok"

\* a list of three locations: the first fails, the second works, the third is
\* left alone
C15_Witness ==
    /\ Fetched
    /\ Len(last.args[1]) = 3
    /\ last.args[2][1] = "HTTPError"
    /\ last.value.kind = "ok"
    /\ last.value.tried = <<1, 2>>

C17_MappingPerEngine ==
    [][\A e \in Engines : e # last'.engine => cache'[e] = cache[e]]_vars

\* one engine has loaded a country that the other engine's mapping lacks
C17_Witness ==
    /\ last.op \in {"get_unique_geo_data", "get_geolocation", "query_postal_code"}
    /\ last.kind \in {"table", "point", "number"}
    /\ \E c \in DOMAIN cache[last.engine] :
          \E e \in Engines \ {last.engine} : c \notin DOMAIN cache[e]

\* what engine e holds for file p: its raw table for a raw file, its table of
\* unique postal codes for a unique file
HeldFor(e, p) ==
    IF p \in RawPaths THEN run[e].raw_geo_data ELSE run[e].unique_geo_data

\* C18: two forced-refresh engines on one storage directory write the files of
\* a country with no lock between them, and each file holds what the engine
\* that wrote it last has written: a write is enabled wherever the other call
\* stands, and every file on disk has one last writer, whose table it holds.
C18_LastWriterWins ==
    /\ \A e \in Engines : \A p \in run[e].wrote : files[p] = <<ToCsv(HeldFor(e, p))>>
    /\ \A p \in RawPaths \cup IndexPaths :
          Exists(files, p) => \E e \in Engines :
                                 /\ p \in run[e].wrote
                                 /\ \A x \in Engines \ {e} : p \notin run[x].wrote
    /\ \A e \in Engines :
          /\ run[e].pc = "to_csv" => ENABLED RaceWriteRaw(e)
          /\ run[e].pc = "index" => ENABLED RaceIndex(e)

\* both calls have returned a table; the raw file is the one an engine wrote
\* and the unique file the one the other engine wrote, and the unique file is
\* not the table of the raw file
C18_Witness ==
    /\ \A e \in Engines : run[e].pc = "done" /\ run[e].kind = "table"
    /\ \E e \in Engines, c \in COUNTRIES_VALID :
          /\ get_raw_geo_data_path(c) \in run[e].wrote
          /\ \E x \in Engines \ {e} : get_unique_geo_data_path(c) \in run[x].wrote
          /\ ReadCsv(files[get_unique_geo_data_path(c)][1])
                # UniqueOf(ReadCsv(files[get_raw_geo_data_path(c)][1]))

\* the call of state last downloaded and the download failed: no raw file
\* was written after it
FetchFailed(l) ==
    /\ l.op \in {"get_unique_geo_data", "get_raw_geo_data"}
    /\ "fetch" \in l.io
    /\ "write_raw" \notin l.io

\* C19: a get_unique_geo_data or get_raw_geo_data whose download fails raises
\* the failure to its caller and commits nothing: the files on disk and the
\* mappings are as before, on a forced engine too; and the next call of the
\* same engine for the same country downloads again.
C19_FailedFetchCommitsNothing ==
    [][/\ FetchFailed(last')
          => /\ last'.kind = "raise"
             /\ last'.value \in {"HTTPError", "URLError"}
             /\ files' = files
             /\ cache' = cache
             /\ StrUpper(last'.args[1]) \in DOMAIN cache'[last'.engine]
                   => last'.op = "get_raw_geo_data"
       /\ (/\ FetchFailed(last)
           /\ last'.op = last.op
           /\ last'.engine = last.engine
           /\ StrUpper(last'.args[1]) = StrUpper(last.args[1]))
          => "fetch" \in last'.io]_vars

\* the download of the forced engine has failed with the two files of the
\* country on disk, and the country is not in the engine's mapping
C19_Witness ==
    /\ FetchFailed(last)
    /\ last.op = "get_unique_geo_data"
    /\ force_download[last.engine]
    /\ last.kind = "raise"
    /\ Exists(files, get_raw_geo_data_path(last.args[1]))
    /\ Exists(files, get_unique_geo_data_path(last.args[1]))
    /\ StrUpper(last.args[1]) \notin DOMAIN cache[last.engine]

\* C20: after any sequence of calls, every key of an engine's mapping is a
\* country code of the catalogue in upper case, and the raw file and the unique
\* file of every key are on disk; a country written in lower case has the files
\* and the entry of the country in upper case.
C20_KeysAreCatalogueCodes ==
    /\ \A e \in Engines : \A c \in DOMAIN cache[e] :
          /\ c \in COUNTRIES_VALID
          /\ c = StrUpper(c)
          /\ Exists(files, get_raw_geo_data_path(c))
          /\ Exists(files, get_unique_geo_data_path(c))
    /\ \A c \in CountryArgs :
          /\ get_raw_geo_data_path(c) = get_raw_geo_data_path(StrUpper(c))
          /\ get_unique_geo_data_path(c) = get_unique_geo_data_path(StrUpper(c))
    /\ (last.op = "get_unique_geo_data" /\ last.kind = "table")
          => /\ StrUpper(last.args[1]) \in DOMAIN cache[last.engine]
             /\ last.value = cache[last.engine][StrUpper(last.args[1])]

\* a country asked for in lower case is answered from the entry that a call in
\* upper case has loaded
C20_Witness ==
    /\ last.op = "get_unique_geo_data"
    /\ last.args[1] # StrUpper(last.args[1])
    /\ last.path = "memory"
    /\ DOMAIN cache[last.engine] = {StrUpper(last.args[1])}
    /\ cacheSrc[last.engine][StrUpper(last.args[1])] = ReadCsv(Data1)

====
